---- MODULE Spec2Model ----
(***************************************************************************)
(* image-humanizer: the scorer (patterns.js), the vocabulary tables and    *)
(* getRandomModifiers (modifiers.js), the transformer (transformer.js) and *)
(* the CLI, HTTP and MCP front-ends, as one state machine.                 *)
(*                                                                         *)
(* Text is modelled character by character on TLA+ strings (Len, SubSeq    *)
(* and \o), so that \b, alternation order, lookaheads and lastIndex mean   *)
(* what they mean in the JavaScript regular expressions of the source.     *)
(* Offsets named lastIndex are JavaScript's 0-based offsets; positions     *)
(* named p, q, e are 1-based positions of the TLA+ string.                 *)
(***************************************************************************)
EXTENDS Integers, Sequences, FiniteSets, TLC

VARIABLES
    lastIndex,  \* lastIndex of every /g regex of AI_PRONE_PATTERNS, by rule id
    vocab,      \* the vocabulary arrays of modifiers.js, by category name
    calls,      \* number of operations run in this process so far
    last        \* what the last operation was given and what it produced

vars == <<lastIndex, vocab, calls, last>>

(***************************************************************************)
(* Bounds of the model.                                                    *)
(***************************************************************************)
MaxCalls == 2     \* operations per process
VocabLen == 3     \* phrases kept of every vocabulary category
MaxDraw == 1      \* a random draw is one of 0..MaxDraw

(***************************************************************************)
(* Characters and strings.                                                 *)
(***************************************************************************)
LowerLetters == "abcdefghijklmnopqrstuvwxyz"
UpperLetters == "ABCDEFGHIJKLMNOPQRSTUVWXYZ"
DigitChars == "0123456789"

CharAt(s, p) == IF p >= 1 /\ p <= Len(s) THEN SubSeq(s, p, p) ELSE ""

CharsOf(s) == {SubSeq(s, p, p) : p \in 1..Len(s)}

Digits == CharsOf(DigitChars)

\* \w of a JavaScript regex without the u flag: [A-Za-z0-9_]
WordChars == CharsOf(LowerLetters) \cup CharsOf(UpperLetters) \cup Digits \cup {"_"}

\* \s restricted to the white space the model's prompts use
SpaceChars == {" "}

IsWordChar(c) == c \in WordChars

\* the i flag: both sides are compared in lower case
LowerOf ==
    [c \in CharsOf(UpperLetters) |->
        LET k == CHOOSE k \in 1..Len(UpperLetters) : SubSeq(UpperLetters, k, k) = c
        IN SubSeq(LowerLetters, k, k)]

LowerChar(c) == IF c \in DOMAIN LowerOf THEN LowerOf[c] ELSE c

\* String.prototype.toLowerCase, by halves
RECURSIVE ToLower(_)
ToLower(s) ==
    IF Len(s) <= 1 THEN LowerChar(s)
    ELSE ToLower(SubSeq(s, 1, Len(s) \div 2))
         \o ToLower(SubSeq(s, (Len(s) \div 2) + 1, Len(s)))

(***************************************************************************)
(* A text as an /i regex sees it: t.s is the text in lower case, t.c its   *)
(* characters, t.b the positions where \b holds (the boundary just before  *)
(* position p, p in 1..Len(s)+1), t.w the boundaries where a word starts.  *)
(***************************************************************************)
ScanBoundaries(s, c, b) ==
    [s |-> s, c |-> c, b |-> b,
     w |-> {p \in b : p <= Len(s) /\ IsWordChar(c[p])}]

ScanChars(s, c) ==
    ScanBoundaries(s, c,
        {p \in 1..(Len(s) + 1) :
            (p > 1 /\ IsWordChar(c[p - 1])) # (p <= Len(s) /\ IsWordChar(c[p]))})

ScanLower(s) == ScanChars(s, [p \in 1..Len(s) |-> SubSeq(s, p, p)])

Scan(text) == ScanLower(ToLower(text))

WordBoundary(t, p) == p \in t.b

\* the alternatives that hold \d, written "#": f\/\d and f\/\d\.\d
DigitPatterns == {"f/#", "f/#.#"}

\* one pattern character against one text character
CharMatches(pc, c) == IF pc = "#" THEN c \in Digits ELSE pc = c

\* the alternative a matches the text at position p
StartsAt(t, p, a) ==
    /\ p >= 1
    /\ p + Len(a) - 1 <= Len(t.s)
    /\ a # "" => t.c[p] = CharAt(a, 1)
    /\ IF a \in DigitPatterns
       THEN \A k \in 1..Len(a) : CharMatches(CharAt(a, k), CharAt(t.s, p + k - 1))
       ELSE SubSeq(t.s, p, p + Len(a) - 1) = a

\* (?! (f1|f2|...)) at position e: none of the followers starts there
NotFollowedBy(t, e, followers) ==
    \A k \in 1..Len(followers) : ~StartsAt(t, e, followers[k])

Min(S) == CHOOSE x \in S : \A y \in S : x <= y

NoFollowers == << >>

(***************************************************************************)
(* \b(a1|a2|...)\b(?! (f1|...)) at position p: the number of characters    *)
(* the first alternative that lets the whole expression match consumes,    *)
(* 0 when the expression does not match at p.                              *)
(***************************************************************************)
MatchLenAt(t, p, alts, followers) ==
    IF ~WordBoundary(t, p) THEN 0
    ELSE LET ok == {k \in 1..Len(alts) :
                       /\ StartsAt(t, p, alts[k])
                       /\ WordBoundary(t, p + Len(alts[k]))
                       /\ NotFollowedBy(t, p + Len(alts[k]), followers)}
         IN IF ok = {} THEN 0 ELSE Len(alts[Min(ok)])

\* the boundaries >= from where one of the characters firsts stands; every
\* alternative of the source starts with a word character, so these are
\* starts of words
Candidates(t, from, firsts) == {p \in t.w : p >= from /\ t.c[p] \in firsts}

\* positions >= from where the expression matches
MatchStarts(t, from, alts, followers) ==
    {p \in Candidates(t, from, {CharAt(alts[k], 1) : k \in 1..Len(alts)}) :
        MatchLenAt(t, p, alts, followers) > 0}

\* RegExp.prototype.test of a regex without the g flag: stateless
TestPlain(t, alts, followers) == MatchStarts(t, 1, alts, followers) # {}

(***************************************************************************)
(* RegExp.prototype.test of a /g regex whose lastIndex is li: the search   *)
(* starts at li; a hit leaves lastIndex at the end of the match, a miss    *)
(* (also li beyond the end of the text) resets it to 0.                    *)
(***************************************************************************)
TestGlobal(t, li, alts) ==
    IF li > Len(t.s) THEN [match |-> FALSE, lastIndex |-> 0]
    ELSE LET starts == MatchStarts(t, li + 1, alts, NoFollowers)
         IN IF starts = {} THEN [match |-> FALSE, lastIndex |-> 0]
            ELSE LET p == Min(starts)
                 IN [match |-> TRUE,
                     lastIndex |-> p - 1 + MatchLenAt(t, p, alts, NoFollowers)]

(***************************************************************************)
(* patterns.js: the detection rules, in definition order.  kind is         *)
(* "anchored" for generic-subject (^ and an optional article), "prefixed"  *)
(* for generic-location (an optional preposition), "global" for a /gi      *)
(* regex used with test, "detect" for a predicate.                         *)
(***************************************************************************)
SubjectArticles == <<"a ", "an ">>
SubjectNouns == <<"woman", "man", "person", "girl", "boy", "child", "people">>
SubjectFollowers == <<" with", " wearing", " holding", " in their", " who">>

LocationPrefixes == <<"in a ", "at a ", "at the ">>
LocationNouns ==
    <<"coffee shop", "restaurant", "office", "room", "street", "park", "beach",
      "forest", "city">>
LocationFollowers == <<" with", " where", " that", " filled">>

StyleWords == <<"style", "aesthetic", "vibe", "mood", "tone", "look", "feel">>
ImperfectionWords ==
    <<"worn", "scratched", "faded", "dusty", "dirty", "messy", "wrinkled",
      "weathered", "aged", "vintage", "grain", "noise", "blur", "soft focus",
      "imperfect">>
\* f\/\d is written f/#
CameraWords ==
    <<"shot on", "filmed", "captured", "35mm", "50mm", "85mm", "f/#", "aperture",
      "leica", "canon", "nikon", "hasselblad", "kodak", "fuji", "portra", "ektar",
      "tri-x">>

\* (hyper|ultra|photo)[- ]?realistic is written with the optional separator spelt out
AI_PRONE_PATTERNS ==
    << [id |-> "generic-subject", name |-> "Generic subject", weight |-> 4,
        kind |-> "anchored", alts |-> SubjectNouns],
       [id |-> "generic-location", name |-> "Generic location", weight |-> 3,
        kind |-> "prefixed", alts |-> LocationNouns],
       [id |-> "beautiful-modifier", name |-> "Overused beauty modifiers", weight |-> 5,
        kind |-> "global",
        alts |-> <<"beautiful", "stunning", "gorgeous", "amazing", "incredible",
                   "breathtaking", "perfect">>],
       [id |-> "hyper-realistic", name |-> "Hyper-realistic trap", weight |-> 4,
        kind |-> "global",
        alts |-> <<"hyper-realistic", "hyper realistic", "hyperrealistic",
                   "ultra-realistic", "ultra realistic", "ultrarealistic",
                   "photo-realistic", "photo realistic", "photorealistic">>],
       [id |-> "8k-4k", name |-> "8K/4K resolution spam", weight |-> 3,
        kind |-> "global",
        alts |-> <<"8k", "4k", "hd", "uhd", "high resolution", "highly detailed">>],
       [id |-> "trending-artstation", name |-> "Trending/ArtStation cliches", weight |-> 4,
        kind |-> "global",
        alts |-> <<"trending on artstation", "artstation", "deviantart", "cgsociety",
                   "unreal engine", "octane render">>],
       [id |-> "cinematic-lighting", name |-> "Generic lighting terms", weight |-> 3,
        kind |-> "global",
        alts |-> <<"cinematic lighting", "dramatic lighting", "professional lighting",
                   "studio lighting">>],
       [id |-> "portrait-generic", name |-> "Generic portrait terms", weight |-> 3,
        kind |-> "global", alts |-> <<"portrait of", "headshot of", "photo of">>],
       [id |-> "style-stacking", name |-> "Style keyword stacking", weight |-> 3,
        kind |-> "detect", alts |-> StyleWords],
       [id |-> "missing-imperfection", name |-> "No imperfections", weight |-> 4,
        kind |-> "detect", alts |-> ImperfectionWords],
       [id |-> "missing-camera", name |-> "No camera/lens reference", weight |-> 3,
        kind |-> "detect", alts |-> CameraWords],
       [id |-> "symmetry-trap", name |-> "Symmetry/centered composition", weight |-> 2,
        kind |-> "global",
        alts |-> <<"centered", "symmetrical", "perfectly balanced", "in the middle",
                   "facing camera directly">>],
       [id |-> "direct-gaze", name |-> "Direct camera gaze", weight |-> 2,
        kind |-> "global",
        alts |-> <<"looking at camera", "staring at camera", "eye contact",
                   "facing forward", "looking directly">>] >>

RuleIndexes == 1..Len(AI_PRONE_PATTERNS)

GlobalRules == {k \in RuleIndexes : AI_PRONE_PATTERNS[k].kind = "global"}

GlobalRuleIds == {AI_PRONE_PATTERNS[k].id : k \in GlobalRules}

\* f\/\d\.\d is written f/#.#
REALISM_INDICATORS ==
    << [alts |-> <<"candid", "unposed", "caught", "moment", "spontaneous">>, weight |-> 2],
       [alts |-> <<"35mm", "50mm", "85mm", "f/#.#">>, weight |-> 3],
       [alts |-> <<"kodak", "fuji", "portra", "ektar", "tri-x", "ilford">>, weight |-> 3],
       [alts |-> <<"grain", "noise", "soft focus", "slight blur", "motion blur">>, weight |-> 2],
       [alts |-> <<"worn", "weathered", "aged", "vintage", "faded", "dusty">>, weight |-> 2],
       [alts |-> <<"golden hour", "overcast", "harsh light", "mixed lighting">>, weight |-> 2],
       [alts |-> <<"wrinkles", "pores", "freckles", "asymmetric", "imperfect">>, weight |-> 2],
       [alts |-> <<"leica", "hasselblad", "contax", "pentax", "mamiya">>, weight |-> 2],
       [alts |-> <<"documentary", "street photography", "photojournalism">>, weight |-> 2] >>

(***************************************************************************)
(* JavaScript values handed to the operations, and String(value), the      *)
(* conversion RegExp.prototype.test applies to its argument.               *)
(***************************************************************************)
JsStr(t) == [kind |-> "string", text |-> t, num |-> 0, items |-> << >>]
JsUndefined == [kind |-> "undefined", text |-> "", num |-> 0, items |-> << >>]
JsNum(n) == [kind |-> "number", text |-> "", num |-> n, items |-> << >>]
JsArray(xs) == [kind |-> "array", text |-> "", num |-> 0, items |-> xs]

RECURSIVE NumToString(_)
NumToString(n) ==
    IF n < 10 THEN SubSeq(DigitChars, n + 1, n + 1)
    ELSE NumToString(n \div 10) \o SubSeq(DigitChars, (n % 10) + 1, (n % 10) + 1)

RECURSIVE Join(_, _)
Join(xs, sep) ==
    IF xs = << >> THEN ""
    ELSE IF Len(xs) = 1 THEN xs[1]
    ELSE xs[1] \o sep \o Join(Tail(xs), sep)

JsToString(v) ==
    CASE v.kind = "string" -> v.text
      [] v.kind = "undefined" -> "undefined"
      [] v.kind = "null" -> "null"
      [] v.kind = "number" -> NumToString(v.num)
      [] v.kind = "array" -> Join(v.items, ",")
      [] OTHER -> "[object Object]"

\* !value: undefined, null, 0 and "" are falsy
Falsy(v) ==
    \/ v.kind \in {"undefined", "null"}
    \/ v.kind = "string" /\ v.text = ""
    \/ v.kind = "number" /\ v.num = 0

(***************************************************************************)
(* The matchers of the rules against the scanned text t.                   *)
(***************************************************************************)
\* /^(a |an )?(woman|...)\b(?! (with|...))/i
SubjectMatch(t) ==
    \E a \in {SubjectArticles[k] : k \in 1..Len(SubjectArticles)} \cup {""} :
        /\ StartsAt(t, 1, a)
        /\ \E n \in 1..Len(SubjectNouns) :
              /\ StartsAt(t, 1 + Len(a), SubjectNouns[n])
              /\ WordBoundary(t, 1 + Len(a) + Len(SubjectNouns[n]))
              /\ NotFollowedBy(t, 1 + Len(a) + Len(SubjectNouns[n]), SubjectFollowers)

\* /\b(in a |at a |at the )?(coffee shop|...)\b(?! (with|...))/i
LocationMatch(t) ==
    \E p \in t.w :
        /\ WordBoundary(t, p)
        /\ \E a \in {LocationPrefixes[k] : k \in 1..Len(LocationPrefixes)} \cup {""} :
              /\ StartsAt(t, p, a)
              /\ \E n \in 1..Len(LocationNouns) :
                    /\ StartsAt(t, p + Len(a), LocationNouns[n])
                    /\ WordBoundary(t, p + Len(a) + Len(LocationNouns[n]))
                    /\ NotFollowedBy(t, p + Len(a) + Len(LocationNouns[n]),
                                     LocationFollowers)

\* prompt.match(/\b(style|...)\b/gi): the matches, left to right, not overlapping
RECURSIVE CountMatches(_, _, _)
CountMatches(t, from, alts) ==
    LET starts == MatchStarts(t, from, alts, NoFollowers)
    IN IF starts = {} THEN 0
       ELSE LET p == Min(starts)
            IN 1 + CountMatches(t, p + MatchLenAt(t, p, alts, NoFollowers), alts)

StyleStackingDetect(t) == CountMatches(t, 1, StyleWords) > 2

MissingImperfectionDetect(t) == ~TestPlain(t, ImperfectionWords, NoFollowers)

\* a detect that never reports
NeverDetects(t) == FALSE

MissingCameraDetect(t) == ~TestPlain(t, CameraWords, NoFollowers)

\* the rule whose detect calls prompt.match, which only a string has
StyleStackingIndex ==
    CHOOSE k \in RuleIndexes : AI_PRONE_PATTERNS[k].id = "style-stacking"

\* every weight counted as 1
CountWeights(table, ks) == Cardinality(ks)

RECURSIVE SumWeights(_, _)
SumWeights(table, ks) ==
    IF ks = {} THEN 0
    ELSE LET k == CHOOSE k \in ks : TRUE
         IN table[k].weight + SumWeights(table, ks \ {k})

Max2(a, b) == IF a >= b THEN a ELSE b
Min2(a, b) == IF a <= b THEN a ELSE b

\* the weighted difference on the scale, without Math.max and Math.min
NormalizedScoreUnclamped(aiScore, realismScore) == (aiScore - realismScore) * 5

\* Math.min(100, Math.round(Math.max(0, aiScore - realismScore) * 5))
NormalizedScore(aiScore, realismScore) ==
    Min2(100, Max2(0, aiScore - realismScore) * 5)

(***************************************************************************)
(* analyzePrompt(prompt) run with the matcher state li.  The loop over the *)
(* rules stops at style-stacking when prompt is not a string (its detect   *)
(* throws a TypeError); the rules before it have then been tested against  *)
(* String(prompt).  The result carries the matcher state the call leaves.  *)
(***************************************************************************)
\* the rules the loop reaches
RulesEvaluated(prompt) ==
    {k \in RuleIndexes : prompt.kind = "string" \/ k < StyleStackingIndex}

\* pattern.regex.test(prompt) of every rule with a /gi regex
TestRules(t, li) ==
    [k \in GlobalRules |->
        TestGlobal(t, li[AI_PRONE_PATTERNS[k].id], AI_PRONE_PATTERNS[k].alts)]

\* match of the loop body for rule k
RuleMatches(k, t, tested) ==
    LET pattern == AI_PRONE_PATTERNS[k]
    IN CASE pattern.kind = "anchored" -> SubjectMatch(t)
         [] pattern.kind = "prefixed" -> LocationMatch(t)
         [] pattern.kind = "global" -> tested[k].match
         [] pattern.id = "style-stacking" -> StyleStackingDetect(t)
         [] pattern.id = "missing-imperfection" -> MissingImperfectionDetect(t)
         [] OTHER -> MissingCameraDetect(t)

\* the rules that pushed an issue
MatchedRules(evaluated, t, tested) == {k \in evaluated : RuleMatches(k, t, tested)}

\* the indicators whose regex matches
RealismHits(t) ==
    {k \in 1..Len(REALISM_INDICATORS) :
        TestPlain(t, REALISM_INDICATORS[k].alts, NoFollowers)}

\* the ids of the matched rules, last rule first
ReversedIssueIds(matched) ==
    LET ks == SelectSeq([k \in RuleIndexes |-> k], LAMBDA k : k \in matched)
    IN [k \in 1..Len(ks) |-> AI_PRONE_PATTERNS[ks[Len(ks) + 1 - k]].id]

\* the ids of the issues, in the order of the rules
IssueIds(matched) ==
    LET ks == SelectSeq([k \in RuleIndexes |-> k], LAMBDA k : k \in matched)
    IN [k \in 1..Len(ks) |-> AI_PRONE_PATTERNS[ks[k]].id]

\* the lastIndex of every /gi regex after the loop
LastIndexAfter(evaluated, tested, li) ==
    [id \in GlobalRuleIds |->
        LET k == CHOOSE k \in GlobalRules : AI_PRONE_PATTERNS[k].id = id
        IN IF k \in evaluated THEN tested[k].lastIndex ELSE li[id]]

\* the returned object, or the exception
AnalysisOf(threw, evaluated, issues, aiScore, realismScore, lastIndexAfter) ==
    [threw |-> threw,
     tested |-> Cardinality(evaluated),
     issues |-> IF threw THEN << >> ELSE issues,
     aiScore |-> IF threw THEN 0 ELSE aiScore,
     realismScore |-> IF threw THEN 0 ELSE realismScore,
     score |-> IF threw THEN 0 ELSE NormalizedScore(aiScore, realismScore),
     issueCount |-> IF threw THEN 0 ELSE Len(issues),
     lastIndex |-> lastIndexAfter]

AnalyzeMatched(threw, evaluated, tested, matched, hits, li) ==
    AnalysisOf(threw, evaluated, IssueIds(matched),
               SumWeights(AI_PRONE_PATTERNS, matched),
               SumWeights(REALISM_INDICATORS, hits),
               LastIndexAfter(evaluated, tested, li))

AnalyzeTested(threw, evaluated, t, tested, li) ==
    AnalyzeMatched(threw, evaluated, tested, MatchedRules(evaluated, t, tested),
                   RealismHits(t), li)

AnalyzeScanned(threw, evaluated, t, li) ==
    AnalyzeTested(threw, evaluated, t, TestRules(t, li), li)

analyzePrompt(prompt, li) ==
    AnalyzeScanned(prompt.kind # "string", RulesEvaluated(prompt),
                   Scan(JsToString(prompt)), li)

(***************************************************************************)
(* modifiers.js: the vocabulary tables.  The model keeps the first         *)
(* VocabLen phrases of every category.                                     *)
(***************************************************************************)
CAMERAS_film ==
    <<"shot on 35mm film", "shot on Kodak Portra 400", "shot on Kodak Ektar 100",
      "shot on Fuji Pro 400H", "shot on Ilford HP5", "shot on Kodak Tri-X 400",
      "shot on Cinestill 800T", "vintage Polaroid", "instant film photograph",
      "disposable camera photo">>
CAMERAS_professional ==
    <<"shot on Leica M6", "shot on Hasselblad 500C", "shot on Contax T2",
      "shot on Mamiya RB67", "shot on Canon AE-1", "shot on Nikon FM2",
      "shot on Pentax K1000", "medium format film", "large format photograph">>
CAMERAS_modern ==
    <<"shot on iPhone", "smartphone photo", "DSLR photograph", "mirrorless camera",
      "point and shoot camera">>
LENSES ==
    <<"35mm lens", "50mm f/1.4", "50mm f/1.8", "85mm portrait lens", "24mm wide angle",
      "135mm telephoto", "f/2.8 aperture", "f/1.4 shallow depth of field",
      "wide open aperture", "bokeh background", "tilt-shift lens",
      "vintage lens with character">>
LIGHTING_natural ==
    <<"golden hour light", "blue hour", "harsh midday sun", "overcast soft light",
      "window light", "dappled sunlight through trees", "backlit silhouette",
      "side lighting", "natural ambient light", "cloudy day diffused light">>
LIGHTING_artificial ==
    <<"single bare bulb", "fluorescent office lighting", "tungsten warm light",
      "neon sign glow", "streetlight at night", "mixed color temperature",
      "practical lights in frame", "flash photography", "harsh camera flash",
      "ring light catchlights">>
LIGHTING_moody ==
    <<"low key lighting", "chiaroscuro", "Rembrandt lighting", "dramatic shadows",
      "rim light", "lens flare", "light leak">>
IMPERFECTIONS_film ==
    <<"film grain", "subtle noise", "light leaks", "dust and scratches",
      "slight overexposure", "underexposed shadows", "color shift", "halation",
      "vignette">>
IMPERFECTIONS_focus ==
    <<"slight motion blur", "soft focus", "out of focus background",
      "shallow depth of field", "slightly out of focus", "focus falloff",
      "subject blur from movement">>
IMPERFECTIONS_physical ==
    <<"lens distortion", "chromatic aberration", "barrel distortion",
      "vintage lens flaws", "soft corners", "coma">>
IMPERFECTIONS_surface ==
    <<"worn surfaces", "weathered", "scratched", "faded colors", "dusty", "dirty",
      "water stains", "patina", "rust", "peeling paint">>
HUMAN_DETAILS ==
    <<"visible pores", "skin texture", "natural wrinkles", "laugh lines", "freckles",
      "moles", "under-eye circles", "stray hairs", "asymmetric features",
      "natural skin tone variation", "subtle redness", "visible veins",
      "chapped lips", "sweat", "goosebumps">>
COMPOSITION_natural ==
    <<"off-center composition", "rule of thirds", "negative space", "candid framing",
      "environmental portrait", "unposed", "caught in the moment",
      "documentary style", "street photography">>
COMPOSITION_angles ==
    <<"eye level", "slightly below eye level", "three-quarter view", "profile view",
      "over the shoulder", "from behind", "birds eye view", "worms eye view">>
COMPOSITION_distance ==
    <<"close-up", "medium shot", "full body", "wide establishing shot",
      "intimate distance", "personal space">>

Prefix(xs, n) == SubSeq(xs, 1, Min2(n, Len(xs)))

\* the arrays as the module defines them at process start
InitialVocab ==
    [ CAMERAS_film |-> Prefix(CAMERAS_film, VocabLen),
      CAMERAS_professional |-> Prefix(CAMERAS_professional, VocabLen),
      CAMERAS_modern |-> Prefix(CAMERAS_modern, VocabLen),
      LENSES |-> Prefix(LENSES, VocabLen),
      LIGHTING_natural |-> Prefix(LIGHTING_natural, VocabLen),
      LIGHTING_artificial |-> Prefix(LIGHTING_artificial, VocabLen),
      LIGHTING_moody |-> Prefix(LIGHTING_moody, VocabLen),
      IMPERFECTIONS_film |-> Prefix(IMPERFECTIONS_film, VocabLen),
      IMPERFECTIONS_focus |-> Prefix(IMPERFECTIONS_focus, VocabLen),
      IMPERFECTIONS_physical |-> Prefix(IMPERFECTIONS_physical, VocabLen),
      IMPERFECTIONS_surface |-> Prefix(IMPERFECTIONS_surface, VocabLen),
      HUMAN_DETAILS |-> Prefix(HUMAN_DETAILS, VocabLen),
      COMPOSITION_natural |-> Prefix(COMPOSITION_natural, VocabLen),
      COMPOSITION_angles |-> Prefix(COMPOSITION_angles, VocabLen),
      COMPOSITION_distance |-> Prefix(COMPOSITION_distance, VocabLen) ]

Categories == DOMAIN InitialVocab

(***************************************************************************)
(* The random source.  A call is given one draw d of 0..MaxDraw, the value *)
(* a stubbed Math.random keeps returning during the call: every            *)
(* Math.floor(Math.random() * n) of the call picks index d mod n, and      *)
(* every items.sort(() => 0.5 - Math.random()) leaves its array in the     *)
(* d-th permutation of the order it found it in (a sort with an            *)
(* inconsistent comparator leaves an implementation-defined order).        *)
(***************************************************************************)
Draws == 0..MaxDraw

\* Math.floor(Math.random() * n)
RandomIndex(d, n) == (d % n) + 1

\* the d-th permutation of xs: d = 0 leaves xs as it is
RECURSIVE Permute(_, _)
Permute(xs, d) ==
    IF Len(xs) <= 1 THEN xs
    ELSE LET i == (d % Len(xs)) + 1
         IN <<xs[i]>> \o Permute(SubSeq(xs, 1, i - 1) \o SubSeq(xs, i + 1, Len(xs)),
                                     d \div Len(xs))

\* a reordering that loses the phrase it puts first
SortedWithoutFirst(items, d) ==
    IF items = << >> THEN << >> ELSE Tail(Permute(items, d))

\* items.sort(() => 0.5 - Math.random()): sorts the array in place
SortRandomly(items, d) == Permute(items, d)

\* a selection that returns the first phrase only
FirstModifier(items, count, d) == Prefix(items, 1)

\* a selection with replacement: count independent picks
PickedWithReplacement(items, count, d) ==
    IF items = << >> THEN << >>
    ELSE [k \in 1..count |-> items[RandomIndex(d + k, Len(items))]]

\* getRandomModifiers(category, count) for an array category: what is returned
getRandomModifiers(items, count, d) == Prefix(SortRandomly(items, d), count)

(***************************************************************************)
(* transformer.js: the text rewriting.  s is the text, L the text as the   *)
(* /gi regex sees it, p the position the scan has reached.                 *)
(***************************************************************************)
HumanNouns ==
    <<"woman", "man", "person", "girl", "boy", "child", "people", "portrait", "face",
      "model", "figure">>

\* a detector that never sees a human subject
NoHumanSubject(prompt) == FALSE

hasHumanSubject(prompt) == TestPlain(Scan(prompt), HumanNouns, NoFollowers)

RECURSIVE SkipSpaces(_, _)
SkipSpaces(s, p) ==
    IF CharAt(s, p) \in SpaceChars THEN SkipSpaces(s, p + 1) ELSE p

\* the end of ,?\s* started at position p
SkipSeparator(s, p) == SkipSpaces(s, IF CharAt(s, p) = "," THEN p + 1 ELSE p)

\* s.replace(/\b(a1|a2|...)\b,?\s*/gi, ''), from position p on: the text up to
\* the next match is kept, the match and its separator are dropped
RECURSIVE RemoveAll(_, _, _, _)
RemoveAll(s, L, p, alts) ==
    LET starts == MatchStarts(L, p, alts, NoFollowers)
    IN IF starts = {} THEN SubSeq(s, p, Len(s))
       ELSE LET q == Min(starts)
                m == MatchLenAt(L, q, alts, NoFollowers)
            IN SubSeq(s, p, q - 1) \o RemoveAll(s, L, SkipSeparator(s, q + m), alts)

StripPhrases(s, alts) == RemoveAll(s, Scan(s), 1, alts)

\* s.replace(/,\s*,/g, ','), from position p on
RECURSIVE CollapseCommas(_, _)
CollapseCommas(s, p) ==
    LET starts == {q \in p..Len(s) :
                      CharAt(s, q) = "," /\ CharAt(s, SkipSpaces(s, q + 1)) = ","}
    IN IF starts = {} THEN SubSeq(s, p, Len(s))
       ELSE LET q == Min(starts)
            IN SubSeq(s, p, q) \o CollapseCommas(s, SkipSpaces(s, q + 1) + 1)

\* s.replace(/\s+/g, ' '), from position p on
RECURSIVE CollapseSpaces(_, _)
CollapseSpaces(s, p) ==
    LET starts == {q \in p..Len(s) : CharAt(s, q) \in SpaceChars}
    IN IF starts = {} THEN SubSeq(s, p, Len(s))
       ELSE LET q == Min(starts)
            IN SubSeq(s, p, q - 1) \o " " \o CollapseSpaces(s, SkipSpaces(s, q))

\* s.replace(/^[,\s]+|[,\s]+$/g, '')
RECURSIVE TrimLeft(_)
TrimLeft(s) ==
    IF s # "" /\ CharAt(s, 1) \in {","} \cup SpaceChars THEN TrimLeft(SubSeq(s, 2, Len(s))) ELSE s

RECURSIVE TrimRight(_)
TrimRight(s) ==
    IF s # "" /\ CharAt(s, Len(s)) \in {","} \cup SpaceChars THEN TrimRight(SubSeq(s, 1, Len(s) - 1))
    ELSE s

\* a cleaner that strips nothing
KeepPrompt(prompt) == prompt

cleanPrompt(prompt) ==
    LET c1 == StripPhrases(prompt,
                  <<"8k", "4k", "hd", "uhd", "high resolution", "highly detailed">>)
        c2 == StripPhrases(c1,
                  <<"trending on artstation", "artstation", "deviantart", "cgsociety",
                    "unreal engine", "octane render">>)
        c3 == StripPhrases(c2,
                  <<"hyper-realistic", "hyper realistic", "hyperrealistic",
                    "ultra-realistic", "ultra realistic", "ultrarealistic",
                    "photo-realistic", "photo realistic", "photorealistic">>)
        c4 == StripPhrases(c3,
                  <<"beautiful", "stunning", "gorgeous", "amazing", "incredible",
                    "breathtaking", "perfect">>)
        c5 == StripPhrases(c4,
                  <<"cinematic lighting", "dramatic lighting", "professional lighting",
                    "studio lighting">>)
        c6 == CollapseCommas(c5, 1)
        c7 == CollapseSpaces(c6, 1)
    IN TrimRight(TrimLeft(c7))

\* s.replace(regex, repl) for a /gi regex \b(a1|...)\b(?! (f1|...)) and a fixed
\* repl, from position p on
RECURSIVE ReplaceAll(_, _, _, _, _, _)
ReplaceAll(s, L, p, alts, followers, repl) ==
    LET starts == MatchStarts(L, p, alts, followers)
    IN IF starts = {} THEN SubSeq(s, p, Len(s))
       ELSE LET q == Min(starts)
                m == MatchLenAt(L, q, alts, followers)
            IN SubSeq(s, p, q - 1) \o repl
               \o ReplaceAll(s, L, q + m, alts, followers, repl)

SubjectAlts == <<"a woman", "a man">>
SubjectQualifiers ==
    <<" with", " wearing", " holding", " in", " who", " aged", " around">>
ages == <<"in her 30s", "in his 40s", "middle-aged", "elderly", "young adult">>
details ==
    <<"with visible laugh lines", "with weathered hands", "with tired eyes",
      "with an asymmetric smile">>

PersonAlts == <<"a person">>
PersonQualifiers == <<" with", " wearing", " holding", " in", " who">>
types ==
    <<"a tired office worker", "a weathered farmer", "a distracted commuter",
      "a street vendor", "someone caught mid-thought">>

\* the first replace of enhanceSubject: `a ${subject} ${age} ${detail}`, the
\* subject as the prompt spells it
RECURSIVE ReplaceSubjects(_, _, _, _)
ReplaceSubjects(s, L, p, d) ==
    LET starts == MatchStarts(L, p, SubjectAlts, SubjectQualifiers)
    IN IF starts = {} THEN SubSeq(s, p, Len(s))
       ELSE LET q == Min(starts)
                m == MatchLenAt(L, q, SubjectAlts, SubjectQualifiers)
            IN SubSeq(s, p, q - 1)
               \o "a " \o SubSeq(s, q + 2, q + m - 1) \o " "
               \o ages[RandomIndex(d, Len(ages))] \o " "
               \o details[RandomIndex(d, Len(details))]
               \o ReplaceSubjects(s, L, q + m, d)

enhanceSubject(prompt, d) ==
    LET e1 == ReplaceSubjects(prompt, Scan(prompt), 1, d)
    IN ReplaceAll(e1, Scan(e1), 1, PersonAlts, PersonQualifiers,
                  types[RandomIndex(d, Len(types))])

\* locationEnhancements, in the order Object.entries lists it
locationEnhancements ==
    << [generic |-> "coffee shop",
        specifics |-> <<"a worn wooden table at a busy coffee shop with steamed windows",
                        "a quiet corner of a cluttered independent coffee shop",
                        "a formica counter at a 24-hour diner">>],
       [generic |-> "office",
        specifics |-> <<"a fluorescent-lit cubicle with papers everywhere",
                        "a messy home office with coffee rings on the desk",
                        "a sterile open-plan office with harsh lighting">>],
       [generic |-> "street",
        specifics |-> <<"a rain-slicked city street at dusk",
                        "a sun-bleached sidewalk in midday heat",
                        "a busy crosswalk during rush hour">>],
       [generic |-> "park",
        specifics |-> <<"a patchy grass park with worn benches",
                        "an overgrown corner of an urban park",
                        "a muddy path through a city park after rain">>] >>

\* new RegExp(`\\b(in a|at a|at the) ${generic}\\b`, 'gi')
LocationAlts(generic) == <<"in a " \o generic, "at a " \o generic, "at the " \o generic>>

\* a rewriting that goes on to the other families after the first one found
EnhanceEveryLocation(prompt, d) ==
    LET Step(text, k) ==
            ReplaceAll(text, Scan(text), 1, LocationAlts(locationEnhancements[k].generic),
                       NoFollowers,
                       "at " \o locationEnhancements[k].specifics[
                                    RandomIndex(d, Len(locationEnhancements[k].specifics))])
    IN Step(Step(Step(Step(prompt, 1), 2), 3), 4)

enhanceLocation(prompt, d) ==
    LET L == Scan(prompt)
        found == {k \in 1..Len(locationEnhancements) :
                     TestPlain(L, LocationAlts(locationEnhancements[k].generic),
                               NoFollowers)}
    IN IF found = {} THEN prompt
       ELSE LET e == locationEnhancements[Min(found)]
            IN ReplaceAll(prompt, L, 1, LocationAlts(e.generic), NoFollowers,
                          "at " \o e.specifics[RandomIndex(d, Len(e.specifics))])

(***************************************************************************)
(* transformer.js: modifier selection and the three operations.  voc is    *)
(* the vocabulary as the call finds it; every getRandomModifiers call      *)
(* sorts the array it is given in place, so each operation returns the     *)
(* vocabulary and the matcher state it leaves next to its result.          *)
(***************************************************************************)
Absent == "(undefined)"     \* an option the caller did not give

WithDefault(v, default) == IF v = Absent THEN default ELSE v

\* Array.prototype.filter(Boolean) over phrases: drops the empty string
Truthy(phrase) == phrase # ""

FilterBoolean(xs) == SelectSeq(xs, Truthy)

\* the arrays buildTechnicalModifiers hands to getRandomModifiers, in call order
TechnicalCategories(style, mood) ==
    (IF style = "film" THEN <<"CAMERAS_film">>
     ELSE IF style = "digital" THEN <<"CAMERAS_modern">> ELSE << >>)
    \o (IF style # "phone" THEN <<"LENSES">> ELSE << >>)
    \o (IF mood = "moody" THEN <<"LIGHTING_moody">>
        ELSE IF mood = "harsh" THEN <<"LIGHTING_artificial">>
        ELSE <<"LIGHTING_natural">>)

\* a builder that ignores style and mood
FilmNaturalModifiers(style, mood, voc, d) ==
    <<voc.CAMERAS_film[1], voc.LENSES[1], voc.LIGHTING_natural[1]>>

buildTechnicalModifiers(style, mood, voc, d) ==
    LET camera == IF style = "film" THEN getRandomModifiers(voc.CAMERAS_film, 1, d)[1]
                  ELSE IF style = "digital"
                       THEN getRandomModifiers(voc.CAMERAS_modern, 1, d)[1]
                       ELSE "smartphone photo"
        lens == IF style # "phone" THEN <<getRandomModifiers(voc.LENSES, 1, d)[1]>>
                ELSE << >>
        lighting == IF mood = "moody" THEN getRandomModifiers(voc.LIGHTING_moody, 1, d)[1]
                    ELSE IF mood = "harsh"
                         THEN getRandomModifiers(voc.LIGHTING_artificial, 1, d)[1]
                         ELSE getRandomModifiers(voc.LIGHTING_natural, 1, d)[1]
    IN FilterBoolean(<<camera>> \o lens \o <<lighting>>)

\* a count that ignores the intensity
CountTwo(intensity) == 2

\* const count = intensity === 'high' ? 3 : intensity === 'low' ? 1 : 2
ImperfectionCount(intensity) ==
    IF intensity = "high" THEN 3 ELSE IF intensity = "low" THEN 1 ELSE 2

ImperfectionCategories(intensity) ==
    <<"IMPERFECTIONS_film">>
    \o (IF ImperfectionCount(intensity) >= 2 THEN <<"IMPERFECTIONS_focus">> ELSE << >>)
    \o (IF ImperfectionCount(intensity) >= 3 THEN <<"IMPERFECTIONS_surface">> ELSE << >>)

RECURSIVE Flatten(_)
Flatten(xss) == IF xss = << >> THEN << >> ELSE Head(xss) \o Flatten(Tail(xss))

buildImperfections(intensity, voc, d) ==
    LET cats == ImperfectionCategories(intensity)
    IN Flatten([k \in 1..Len(cats) |-> getRandomModifiers(voc[cats[k]], 1, d)])

Range(xs) == {xs[k] : k \in 1..Len(xs)}

\* the vocabulary after getRandomModifiers has sorted every array of cats
Shuffled(voc, cats, d) ==
    [c \in Categories |-> IF c \in cats THEN SortRandomly(voc[c], d) ELSE voc[c]]

\* the id given where the name belongs
IssueIdForName(id) == id

IssueName(id) ==
    LET k == CHOOSE k \in RuleIndexes : AI_PRONE_PATTERNS[k].id = id
    IN AI_PRONE_PATTERNS[k].name

NoResult ==
    [original |-> "", transformed |-> "", originalScore |-> 0, newScore |-> 0,
     improvement |-> 0, issuesFixed |-> << >>, modifiersAdded |-> << >>]

(***************************************************************************)
(* transformPrompt(prompt, options).  A prompt that is not a string makes  *)
(* the first analyzePrompt throw; nothing after it runs.  The steps of the *)
(* function follow, last first.                                            *)
(***************************************************************************)
\* const { style = 'film', mood = 'natural', imperfectionLevel = 'medium',
\*         preserveOriginal = false } = options
Destructured(options) ==
    [style |-> WithDefault(options.style, "film"),
     mood |-> WithDefault(options.mood, "natural"),
     imperfectionLevel |-> WithDefault(options.imperfectionLevel, "medium"),
     preserveOriginal |-> options.preserveOriginal]

\* the text after cleanPrompt, enhanceSubject and enhanceLocation
TransformedText(text, preserveOriginal, rnd) ==
    enhanceLocation(
        enhanceSubject(IF preserveOriginal THEN text ELSE cleanPrompt(text), rnd), rnd)

\* the modifier list with the human details put first
HumanDetailsFirst(o, isHuman, voc, rnd) ==
    (IF isHuman THEN getRandomModifiers(voc.HUMAN_DETAILS, 2, rnd) ELSE << >>)
    \o buildTechnicalModifiers(o.style, o.mood, voc, rnd)
    \o buildImperfections(o.imperfectionLevel, voc, rnd)
    \o getRandomModifiers(voc.COMPOSITION_natural, 1, rnd)

\* [...technical, ...imperfections, ...composition, ...humanDetails].filter(Boolean)
AllModifiers(o, isHuman, voc, rnd) ==
    FilterBoolean(buildTechnicalModifiers(o.style, o.mood, voc, rnd)
                  \o buildImperfections(o.imperfectionLevel, voc, rnd)
                  \o getRandomModifiers(voc.COMPOSITION_natural, 1, rnd)
                  \o (IF isHuman THEN getRandomModifiers(voc.HUMAN_DETAILS, 2, rnd)
                      ELSE << >>))

\* the arrays the call hands to getRandomModifiers
SortedByTransform(o, isHuman) ==
    Range(TechnicalCategories(o.style, o.mood))
    \cup Range(ImperfectionCategories(o.imperfectionLevel))
    \cup {"COMPOSITION_natural"}
    \cup (IF isHuman THEN {"HUMAN_DETAILS"} ELSE {})

\* the returned object, with the matcher state and the vocabulary left
TransformResult(text, analysis, newAnalysis, finalPrompt, allModifiers, vocAfter) ==
    [threw |-> FALSE,
     result |->
         [original |-> text,
          transformed |-> finalPrompt,
          originalScore |-> analysis.score,
          newScore |-> newAnalysis.score,
          improvement |-> analysis.score - newAnalysis.score,
          issuesFixed |-> [k \in 1..Len(analysis.issues) |->
                              IssueName(analysis.issues[k])],
          modifiersAdded |-> allModifiers],
     lastIndex |-> newAnalysis.lastIndex,
     vocab |-> vocAfter]

\* const newAnalysis = analyzePrompt(finalPrompt)
TransformJoined(text, analysis, finalPrompt, allModifiers, vocAfter) ==
    TransformResult(text, analysis, analyzePrompt(JsStr(finalPrompt), analysis.lastIndex),
                    finalPrompt, allModifiers, vocAfter)

\* const finalPrompt = [transformed, ...allModifiers].join(', ')
TransformBuilt(text, analysis, transformed, allModifiers, vocAfter) ==
    TransformJoined(text, analysis, Join(<<transformed>> \o allModifiers, ", "),
                    allModifiers, vocAfter)

TransformHuman(text, o, rnd, voc, analysis, isHuman) ==
    TransformBuilt(text, analysis, TransformedText(text, o.preserveOriginal, rnd),
                   AllModifiers(o, isHuman, voc, rnd),
                   Shuffled(voc, SortedByTransform(o, isHuman), rnd))

TransformAnalyzed(prompt, o, rnd, voc, analysis) ==
    IF analysis.threw
    THEN [threw |-> TRUE, result |-> NoResult, lastIndex |-> analysis.lastIndex,
          vocab |-> voc]
    ELSE TransformHuman(prompt.text, o, rnd, voc, analysis, hasHumanSubject(prompt.text))

transformPrompt(prompt, options, rnd, li, voc) ==
    TransformAnalyzed(prompt, Destructured(options), rnd, voc, analyzePrompt(prompt, li))

NoSuggestions ==
    [issues |-> << >>, score |-> 0, camera |-> << >>, lighting |-> << >>,
     imperfections |-> << >>, composition |-> << >>, hasHumanDetails |-> FALSE,
     humanDetails |-> << >>]

\* the arrays getSuggestions hands to getRandomModifiers
SortedBySuggest(isHuman) ==
    {"CAMERAS_film", "LIGHTING_natural", "IMPERFECTIONS_film", "COMPOSITION_natural"}
    \cup (IF isHuman THEN {"HUMAN_DETAILS"} ELSE {})

\* the suggestions object; recommendedAdditions is flattened into it, and
\* hasHumanDetails says whether recommendedAdditions.humanDetails is set
SuggestionsFor(analysis, isHuman, rnd, voc) ==
    [threw |-> FALSE,
     result |->
         [issues |-> analysis.issues,
          score |-> analysis.score,
          camera |-> getRandomModifiers(voc.CAMERAS_film, 2, rnd),
          lighting |-> getRandomModifiers(voc.LIGHTING_natural, 2, rnd),
          imperfections |-> getRandomModifiers(voc.IMPERFECTIONS_film, 2, rnd),
          composition |-> getRandomModifiers(voc.COMPOSITION_natural, 2, rnd),
          hasHumanDetails |-> isHuman,
          humanDetails |-> IF isHuman
                           THEN getRandomModifiers(voc.HUMAN_DETAILS, 3, rnd)
                           ELSE << >>],
     lastIndex |-> analysis.lastIndex,
     vocab |-> Shuffled(voc, SortedBySuggest(isHuman), rnd)]

SuggestAnalyzed(prompt, rnd, voc, analysis) ==
    IF analysis.threw
    THEN [threw |-> TRUE, result |-> NoSuggestions, lastIndex |-> analysis.lastIndex,
          vocab |-> voc]
    ELSE SuggestionsFor(analysis, hasHumanSubject(prompt.text), rnd, voc)

\* getSuggestions(prompt)
getSuggestions(prompt, rnd, li, voc) ==
    SuggestAnalyzed(prompt, rnd, voc, analyzePrompt(prompt, li))

NoAnalysis ==
    [threw |-> FALSE, tested |-> 0, issues |-> << >>, aiScore |-> 0, realismScore |-> 0,
     score |-> 0, issueCount |-> 0]

\* the AnalysisResult of an analysis, without the matcher state it leaves
AnalysisResult(a) ==
    [threw |-> a.threw, tested |-> a.tested, issues |-> a.issues, aiScore |-> a.aiScore,
     realismScore |-> a.realismScore, score |-> a.score, issueCount |-> a.issueCount]

NoOptions ==
    [style |-> Absent, mood |-> Absent, imperfectionLevel |-> Absent,
     preserveOriginal |-> FALSE]

Options(style, mood, level) ==
    [style |-> style, mood |-> mood, imperfectionLevel |-> level,
     preserveOriginal |-> FALSE]

(***************************************************************************)
(* The inputs the operations are given.                                    *)
(***************************************************************************)
ExamplePrompt == "a beautiful woman in a coffee shop, 8k, trending on artstation"
RealismPrompt == "candid photo shot on 35mm Kodak film grain, worn f/1.4"
PortraitPrompt == "Beautiful candid portrait of a man"
ResolutionPrompt == "HIGH 8K resolution"
PersonPrompt == "A Person"
PreservedPrompt == "Stunning 8k shot of a man, artstation, canon, blur"
RepeatedPrompt == "stunning, gorgeous portrait of a cat, photo of a dog"

AnalyzeInputs ==
    {JsStr(t) : t \in {"", " ", ExamplePrompt, "a woman in a coffee shop",
                       PortraitPrompt, RealismPrompt, RepeatedPrompt}}
    \cup {JsUndefined, JsNum(8), JsArray(<<"Beautiful">>)}

TransformInputs ==
    {<<JsStr(t), NoOptions>> : t \in {"", " ", "a woman in a coffee shop"}}
    \cup {<<JsStr(ExamplePrompt), o>> :
             o \in {Options("film", "natural", "medium"),
                    Options("phone", "harsh", "high"),
                    Options("polaroid", "natural", "medium")}}
    \cup {<<JsStr(ResolutionPrompt), Options("digital", "moody", "low")>>,
          <<JsStr(PersonPrompt), Options("film", "sunny", "extreme")>>}
    \cup {<<JsStr(PreservedPrompt),
            [NoOptions EXCEPT !.preserveOriginal = TRUE]>>}

SuggestInputs == {JsStr("a woman in a coffee shop"), JsStr(RealismPrompt), JsUndefined}

(***************************************************************************)
(* The state after the modules are loaded: every regex literal of          *)
(* AI_PRONE_PATTERNS has lastIndex 0 and the arrays stand as written.      *)
(***************************************************************************)
InitialLastIndex == [id \in GlobalRuleIds |-> 0]

NoCall ==
    [op |-> "none", via |-> "none", prompt |-> JsUndefined, options |-> NoOptions,
     rnd |-> 0, ran |-> FALSE, signal |-> "none", analysis |-> NoAnalysis,
     transform |-> NoResult, suggestions |-> NoSuggestions,
     category |-> "none", count |-> 0, modifiers |-> << >>,
     parts |-> << >>, text |-> "",
     \* a line of standard input of the MCP server: whether JSON.parse accepts
     \* it, and msg.method, msg.id, whether msg.params is there, params.name
     \* and params.arguments (an absent one has every field absent)
     line |-> [parses |-> FALSE, method |-> "", id |-> 0, hasParams |-> FALSE,
               name |-> "",
               arguments |-> [prompt |-> JsUndefined, style |-> Absent, mood |-> Absent,
                              imperfectionLevel |-> Absent]],
     written |-> << >>]

Init ==
    /\ lastIndex = InitialLastIndex
    /\ vocab = InitialVocab
    /\ calls = 0
    /\ last = NoCall

(***************************************************************************)
(* One call of a library operation, from the matcher state li and the      *)
(* vocabulary voc: what it returns or that it threw, and the state left.   *)
(***************************************************************************)
Operations == {"transform", "analyze", "suggest"}

TransformOutcome(t) ==
    [threw |-> t.threw, lastIndex |-> t.lastIndex, vocab |-> t.vocab,
     analysis |-> NoAnalysis, transform |-> t.result, suggestions |-> NoSuggestions]

AnalyzeOutcome(a, voc) ==
    [threw |-> a.threw, lastIndex |-> a.lastIndex, vocab |-> voc,
     analysis |-> AnalysisResult(a), transform |-> NoResult,
     suggestions |-> NoSuggestions]

SuggestOutcome(g) ==
    [threw |-> g.threw, lastIndex |-> g.lastIndex, vocab |-> g.vocab,
     analysis |-> NoAnalysis, transform |-> NoResult, suggestions |-> g.result]

CallCore(op, prompt, options, rnd, li, voc) ==
    IF op = "transform"
    THEN TransformOutcome(transformPrompt(prompt, options, rnd, li, voc))
    ELSE IF op = "analyze" THEN AnalyzeOutcome(analyzePrompt(prompt, li), voc)
    ELSE SuggestOutcome(getSuggestions(prompt, rnd, li, voc))

\* the call has been made with outcome r: the state it leaves, and what the
\* caller sees (failed when the operation threw, passed when it returned)
Outcome(via, op, prompt, options, rnd, r, failed, passed) ==
    /\ lastIndex' = r.lastIndex
    /\ vocab' = r.vocab
    /\ last' = [NoCall EXCEPT !.op = op, !.via = via, !.prompt = prompt,
                              !.options = options, !.rnd = rnd, !.ran = TRUE,
                              !.signal = IF r.threw THEN failed ELSE passed,
                              !.analysis = r.analysis, !.transform = r.transform,
                              !.suggestions = r.suggestions]

Served(via, op, prompt, options, rnd, failed, passed) ==
    Outcome(via, op, prompt, options, rnd,
            CallCore(op, prompt, options, rnd, lastIndex, vocab), failed, passed)

\* the request was refused before any library operation was called
Refused(via, op, prompt, signal) ==
    /\ last' = [NoCall EXCEPT !.op = op, !.via = via, !.prompt = prompt,
                              !.signal = signal]
    /\ UNCHANGED <<lastIndex, vocab>>

(***************************************************************************)
(* The library's operations (src/index.js), called directly.               *)
(***************************************************************************)
Analyze(prompt) ==
    /\ calls < MaxCalls
    /\ calls' = calls + 1
    /\ Served("api", "analyze", prompt, NoOptions, 0, "throw", "return")

Transform(prompt, options, rnd) ==
    /\ calls < MaxCalls
    /\ calls' = calls + 1
    /\ Served("api", "transform", prompt, options, rnd, "throw", "return")

Suggest(prompt, rnd) ==
    /\ calls < MaxCalls
    /\ calls' = calls + 1
    /\ Served("api", "suggest", prompt, NoOptions, rnd, "throw", "return")

Next ==
    \/ \E prompt \in AnalyzeInputs : Analyze(prompt)
    \/ \E in \in TransformInputs, rnd \in Draws : Transform(in[1], in[2], rnd)
    \/ \E prompt \in SuggestInputs, rnd \in Draws : Suggest(prompt, rnd)

Spec == Init /\ [][Next]_vars

(***************************************************************************)
(* getRandomModifiers (src/index.js exports it), called directly.  An      *)
(* array category is one of the arrays of the vocabulary and is sorted in  *)
(* place; the object category CAMERAS is flattened into a new array, which *)
(* is the one sorted; any other value (here the string 'film') gives [].   *)
(***************************************************************************)
GetRandomModifiers(category, count, rnd) ==
    /\ calls < MaxCalls
    /\ calls' = calls + 1
    /\ lastIndex' = lastIndex
    /\ vocab' = IF category \in Categories
                THEN [vocab EXCEPT ![category] = SortRandomly(@, rnd)]
                ELSE vocab
    /\ last' = [NoCall EXCEPT
                  !.op = "getRandomModifiers", !.via = "api", !.rnd = rnd, !.ran = TRUE,
                  !.signal = "return", !.category = category, !.count = count,
                  !.modifiers =
                      IF category \in Categories
                      THEN getRandomModifiers(vocab[category], count, rnd)
                      ELSE IF category = "CAMERAS"
                      THEN getRandomModifiers(
                               Flatten(<<vocab.CAMERAS_film, vocab.CAMERAS_professional,
                                         vocab.CAMERAS_modern>>), count, rnd)
                      ELSE << >>]

\* the calls that reach the vocabulary: the selection function with a count
\* below, at and above the size of the category, a transform and a suggest
ModifiersSpec ==
    /\ Init
    /\ [][
         \/ \E category \in {"CAMERAS_film", "LENSES", "HUMAN_DETAILS", "CAMERAS", "film"},
               count \in {0, 2, VocabLen + 1}, rnd \in Draws :
                GetRandomModifiers(category, count, rnd)
         \/ \E rnd \in Draws :
                Transform(JsStr(PersonPrompt), Options("film", "sunny", "extreme"), rnd)
         \/ \E rnd \in Draws : Suggest(JsStr("a woman in a coffee shop"), rnd)
       ]_vars

(***************************************************************************)
(* The two rewriting steps of transformPrompt, enhanceSubject and          *)
(* enhanceLocation, applied on their own to a prompt made of the phrases   *)
(* parts joined by ", ": text is the string the step returns.  They read   *)
(* neither the vocabulary nor the matchers of the scorer.                  *)
(***************************************************************************)
EnhanceSubject(parts, rnd) ==
    /\ calls < MaxCalls
    /\ calls' = calls + 1
    /\ last' = [NoCall EXCEPT !.op = "enhanceSubject", !.via = "transform",
                              !.prompt = JsStr(Join(parts, ", ")), !.parts = parts,
                              !.rnd = rnd, !.ran = TRUE, !.signal = "return",
                              !.text = enhanceSubject(Join(parts, ", "), rnd)]
    /\ UNCHANGED <<lastIndex, vocab>>

EnhanceLocation(parts, rnd) ==
    /\ calls < MaxCalls
    /\ calls' = calls + 1
    /\ last' = [NoCall EXCEPT !.op = "enhanceLocation", !.via = "transform",
                              !.prompt = JsStr(Join(parts, ", ")), !.parts = parts,
                              !.rnd = rnd, !.ran = TRUE, !.signal = "return",
                              !.text = enhanceLocation(Join(parts, ", "), rnd)]
    /\ UNCHANGED <<lastIndex, vocab>>

\* prompts of one or two phrases
Phrases(S) == {<<a>> : a \in S} \cup {<<a, b>> : a \in S, b \in S}

EnhanceSpec ==
    /\ Init
    /\ [][
         \/ \E parts \in Phrases({"a woman", "A Man with a hat", "a person aged 40",
                                   "a person who waits"})
                              \cup {<<"a woman inside">>, <<"a woman aged 30">>, <<"a dog">>,
                                    <<"a man", "a Woman", "A Person">>},
               rnd \in Draws : EnhanceSubject(parts, rnd)
         \/ \E parts \in Phrases({"in a park", "At The Office", "at the park",
                                   "in a coffee shop"})
                              \cup {<<"in a parking lot">>, <<"in the park">>, <<"a dog">>,
                                    <<"at a street", "in a park", "At A Street">>},
               rnd \in Draws : EnhanceLocation(parts, rnd)
       ]_vars

(***************************************************************************)
(* The front-ends.  Each receives a request and calls the library; signal  *)
(* is what the caller of the front-end sees, ran whether a library         *)
(* operation was called.                                                   *)
(***************************************************************************)
\* x || dflt on an option (an absent or empty option is falsy)
OrDefault(v, dflt) == IF v = Absent \/ v = "" THEN dflt ELSE v

\* { style: x.style || 'film', mood: x.mood || 'natural', ... }
RequestOptions(x) ==
    [style |-> OrDefault(x.style, "film"), mood |-> OrDefault(x.mood, "natural"),
     imperfectionLevel |-> OrDefault(x.imperfectionLevel, "medium"),
     preserveOriginal |-> FALSE]

(***************************************************************************)
(* The command line: cmdTransform, cmdAnalyze, cmdSuggest.  promptText is  *)
(* the words after the command joined by spaces, "" when there are none;   *)
(* options come from parseOptions, whose defaults are film/natural/medium. *)
(***************************************************************************)
CliCommand(op, promptText, options, rnd) ==
    /\ calls < MaxCalls
    /\ calls' = calls + 1
    /\ IF Falsy(JsStr(promptText))
       THEN Refused("cli", op, JsStr(promptText), "exit 1")
       ELSE Served("cli", op, JsStr(promptText), options, rnd, "exit 1", "exit 0")

(***************************************************************************)
(* The HTTP server: POST /api/transform, /api/analyze, /api/suggest with   *)
(* the parsed JSON body; an exception of the library is answered 500.      *)
(***************************************************************************)
HttpRequest(op, body, rnd) ==
    /\ calls < MaxCalls
    /\ calls' = calls + 1
    /\ IF Falsy(body.prompt)
       THEN Refused("http", op, body.prompt, "400")
       ELSE Served("http", op, body.prompt, RequestOptions(body), rnd, "500", "200")

(***************************************************************************)
(* The MCP server: a tools/call message; handleTool passes args.prompt to  *)
(* the library unchecked, an exception becomes the error -32000.           *)
(***************************************************************************)
McpToolsCall(name, args, rnd) ==
    /\ calls < MaxCalls
    /\ calls' = calls + 1
    /\ Served("mcp", name, args.prompt, RequestOptions(args), rnd, "error -32000",
              "result")

\* a request body or tool arguments: the prompt and the three options
Request(prompt, style) ==
    [prompt |-> prompt, style |-> style, mood |-> Absent, imperfectionLevel |-> Absent]

FrontEndPrompts == {JsUndefined, JsStr(""), JsStr("a woman in a coffee shop")}

Requests ==
    {Request(p, Absent) : p \in FrontEndPrompts} \cup {Request(JsStr(ExamplePrompt), "phone")}

CliPrompts == {"", "a woman in a coffee shop", ExamplePrompt}

FrontEndNext ==
    \/ \E op \in Operations, promptText \in CliPrompts, rnd \in Draws :
           CliCommand(op, promptText, Options("film", "natural", "medium"), rnd)
    \/ \E op \in Operations, body \in Requests, rnd \in Draws : HttpRequest(op, body, rnd)
    \/ \E name \in Operations, args \in Requests, rnd \in Draws :
           McpToolsCall(name, args, rnd)

FrontEndSpec == Init /\ [][FrontEndNext]_vars

(***************************************************************************)
(* The MCP server, line by line: rl.on('line').  written is what the       *)
(* handler of the line sent to standard output: for each send its id and   *)
(* its result or error code.  An exception outside the inner try (of       *)
(* JSON.parse, or of the destructuring of an absent msg.params) ends in    *)
(* the outer catch, which sends nothing.  r is the outcome of handleTool   *)
(* where the handler calls it; the tool 'modifiers' returns the tables and *)
(* any name other than the four tools throws 'Unknown tool'.               *)
(***************************************************************************)
McpOutcome(line, rnd, called, r) ==
    /\ lastIndex' = r.lastIndex
    /\ vocab' = r.vocab
    /\ last' = [NoCall EXCEPT
                  !.op = IF called THEN line.name ELSE line.method, !.via = "mcp",
                  !.prompt = line.arguments.prompt,
                  !.options = RequestOptions(line.arguments), !.rnd = rnd,
                  !.ran = called /\ line.name \in Operations,
                  !.signal = IF ~called THEN "none"
                             ELSE IF r.threw THEN "error -32000" ELSE "result",
                  !.analysis = r.analysis, !.transform = r.transform,
                  !.suggestions = r.suggestions, !.line = line,
                  !.written =
                      IF ~line.parses \/ line.method = "notifications/initialized"
                      THEN << >>
                      ELSE IF line.method \in {"initialize", "tools/list"}
                      THEN << [id |-> line.id, kind |-> "result", code |-> 0] >>
                      ELSE IF line.method # "tools/call"
                      THEN << [id |-> line.id, kind |-> "error", code |-> -32601] >>
                      ELSE IF ~called THEN << >>
                      ELSE IF r.threw
                      THEN << [id |-> line.id, kind |-> "error", code |-> -32000] >>
                      ELSE << [id |-> line.id, kind |-> "result", code |-> 0] >>]

McpLine(line, rnd) ==
    /\ calls < MaxCalls
    /\ calls' = calls + 1
    /\ IF line.parses /\ line.method = "tools/call" /\ line.hasParams
       THEN McpOutcome(line, rnd, TRUE,
                IF line.name \in Operations
                THEN CallCore(line.name, line.arguments.prompt,
                              RequestOptions(line.arguments), rnd, lastIndex, vocab)
                ELSE [threw |-> line.name # "modifiers", lastIndex |-> lastIndex,
                      vocab |-> vocab, analysis |-> NoAnalysis, transform |-> NoResult,
                      suggestions |-> NoSuggestions])
       ELSE McpOutcome(line, rnd, FALSE,
                [threw |-> FALSE, lastIndex |-> lastIndex, vocab |-> vocab,
                 analysis |-> NoAnalysis, transform |-> NoResult,
                 suggestions |-> NoSuggestions])

\* the lines: one that is no JSON, messages of every method the handler
\* tells apart and of one it does not know, tools/call with and without
\* params, for the tools and for a name that is no tool
McpSpec ==
    /\ Init
    /\ [][
         \E line \in {NoCall.line}
                      \cup [parses : {TRUE},
                            method : {"initialize", "tools/list", "tools/call",
                                      "notifications/initialized", "ping"},
                            id : {1, 2}, hasParams : {FALSE}, name : {""},
                            arguments : {NoCall.line.arguments}]
                      \cup [parses : {TRUE}, method : {"tools/call"}, id : {1, 2},
                            hasParams : {TRUE},
                            name : {"transform", "analyze", "suggest", "modifiers", "render"},
                            arguments : {NoCall.line.arguments,
                                         Request(JsStr("a woman in a coffee shop"), Absent)}],
            rnd \in Draws : McpLine(line, rnd)
       ]_vars

(***************************************************************************)
(* Properties of the library (under Spec).                                 *)
(***************************************************************************)
Returned(op) == last.op = op /\ last.signal = "return"

\* C1: for a string prompt, after any earlier calls, the score analyze returns
\* is an integer from 0 to 100, and so are originalScore and newScore of every
\* transform result.
ScoreWithinBounds ==
    /\ Returned("analyze") => last.analysis.score \in 0..100
    /\ Returned("transform") =>
           /\ last.transform.originalScore \in 0..100
           /\ last.transform.newScore \in 0..100

\* C1 happens: after an earlier call, an analysis whose weighted difference
\* exceeds the scale returns exactly 100
ScoreClampedAtTop ==
    /\ Returned("analyze")
    /\ calls >= 2
    /\ (last.analysis.aiScore - last.analysis.realismScore) * 5 > 100
    /\ last.analysis.score = 100

\* C2: two consecutive calls analyze(P) on the same prompt return the same
\* score and the same issue list.
RepeatedAnalyzeAgrees ==
    [][(/\ Returned("analyze")
        /\ last'.op = "analyze" /\ last'.signal = "return"
        /\ last'.prompt = last.prompt)
       => /\ last'.analysis.score = last.analysis.score
          /\ last'.analysis.issues = last.analysis.issues]_vars

\* C3: analyze has no side effects: the call leaves the state of every
\* rule's matcher as it found it.
AnalyzeLeavesMatchersAlone ==
    [][last'.op = "analyze" => lastIndex' = lastIndex]_vars

\* C4: after any sequence of calls every vocabulary category holds the same
\* phrases in the same order as at process start.
VocabularyNeverChanges == vocab = InitialVocab

RECURSIVE IssueWeightSum(_)
IssueWeightSum(ids) ==
    IF ids = << >> THEN 0
    ELSE LET k == CHOOSE k \in RuleIndexes : AI_PRONE_PATTERNS[k].id = Head(ids)
         IN AI_PRONE_PATTERNS[k].weight + IssueWeightSum(Tail(ids))

RECURSIVE IndicatorWeightSum(_, _)
IndicatorWeightSum(t, k) ==
    IF k > Len(REALISM_INDICATORS) THEN 0
    ELSE (IF TestPlain(t, REALISM_INDICATORS[k].alts, NoFollowers)
          THEN REALISM_INDICATORS[k].weight ELSE 0)
         + IndicatorWeightSum(t, k + 1)

\* C5: in every result of analyze(P), score = min(100, 5 * max(0, aiScore -
\* realismScore)), aiScore is the sum of the weights of the issues returned,
\* realismScore the sum of the weights of the realism indicators that match
\* P, and issueCount the length of the issue list.
AnalysisArithmetic ==
    Returned("analyze") =>
        LET a == last.analysis
            raw == IF a.aiScore - a.realismScore > 0
                   THEN a.aiScore - a.realismScore ELSE 0
        IN /\ a.score = (IF 5 * raw < 100 THEN 5 * raw ELSE 100)
           /\ a.aiScore = IssueWeightSum(a.issues)
           /\ a.realismScore = IndicatorWeightSum(Scan(last.prompt.text), 1)
           /\ a.issueCount = Len(a.issues)

\* C5 happens: an analysis with several issues and a matching realism
\* indicator, scored strictly inside the scale
AnalysisWithIssuesAndRealism ==
    /\ Returned("analyze")
    /\ last.analysis.issueCount >= 2
    /\ last.analysis.realismScore > 0
    /\ last.analysis.score > 0
    /\ last.analysis.score < 100

AnalyzedEmpty == Returned("analyze") /\ last.prompt = JsStr("")

\* C6, as the code has it: analyze("") yields score 35 and the two issues
\* 'No imperfections' and 'No camera/lens reference' (both absence rules
\* fire on the empty prompt), whatever calls came before.
EmptyPromptScoresAbsenceRules ==
    AnalyzedEmpty =>
        /\ last.analysis.score = 35
        /\ last.analysis.issues = <<"missing-imperfection", "missing-camera">>

\* C6 happens: the empty prompt analysed after an earlier call
EmptyPromptAnalyzedLater == AnalyzedEmpty /\ calls >= 2 /\ last.analysis.score = 35

\* C6 as stated: analyze("") yields score 0 and an empty issue list.
EmptyPromptScoresZero ==
    AnalyzedEmpty => last.analysis.score = 0 /\ last.analysis.issues = << >>

\* C7: transform of an empty or whitespace-only prompt signals an error and
\* returns no result.
BlankPromptRejected ==
    (last.op = "transform" /\ last.via = "api" /\ last.prompt \in {JsStr(""), JsStr(" ")})
        => last.signal = "throw"

\* C8: analyze of a non-string prompt signals an error without coercing the
\* value: no rule is evaluated against it.
NonStringNotCoerced ==
    (last.op = "analyze" /\ last.via = "api" /\ last.prompt.kind # "string")
        => last.signal = "throw" /\ last.analysis.tested = 0

Styles == {"film", "digital", "phone"}
Moods == {"natural", "moody", "harsh"}
ImperfectionLevels == {"low", "medium", "high"}

\* the options with every value outside its enumeration replaced by the default
Defaulted(options) ==
    [style |-> IF options.style \in Styles THEN options.style ELSE "film",
     mood |-> IF options.mood \in Moods THEN options.mood ELSE "natural",
     imperfectionLevel |-> IF options.imperfectionLevel \in ImperfectionLevels
                           THEN options.imperfectionLevel ELSE "medium",
     preserveOriginal |-> options.preserveOriginal]

\* C9: a transform whose style, mood or imperfectionLevel is outside its
\* enumeration returns what the same call with that field's default returns.
InvalidOptionActsAsDefault ==
    [][(last'.op = "transform" /\ last'.signal = "return")
       => last'.transform =
              transformPrompt(last'.prompt, Defaulted(last'.options), last'.rnd,
                              lastIndex, vocab).result]_vars

(***************************************************************************)
(* Properties of the front-ends (under FrontEndSpec).                      *)
(***************************************************************************)
FailureSignal ==
    [cli |-> {"exit 1"}, http |-> {"400"}, mcp |-> {"error -32000"}]

\* C10: each front-end answers a missing or empty prompt with its failure
\* signal (CLI non-zero exit, HTTP 400, MCP JSON-RPC error) and does not run
\* the library operation.
MissingPromptRefused ==
    (last.via \in DOMAIN FailureSignal /\ Falsy(last.prompt))
        => ~last.ran /\ last.signal \in FailureSignal[last.via]

(***************************************************************************)
(* Properties of the transformer (under Spec).                             *)
(***************************************************************************)
\* a transform that returned after phrase stripping
StrippedTransform == Returned("transform") /\ ~last.options.preserveOriginal

\* the rules whose phrase family cleanPrompt strips
StripFamilies ==
    {"8k-4k", "trending-artstation", "hyper-realistic", "beautiful-modifier",
     "cinematic-lighting"}

\* the families whose rule finds a phrase in text, searched from its start
FlaggedFamilies(text) ==
    {AI_PRONE_PATTERNS[k].id :
        k \in {k \in GlobalRules :
                  /\ AI_PRONE_PATTERNS[k].id \in StripFamilies
                  /\ TestPlain(Scan(text), AI_PRONE_PATTERNS[k].alts, NoFollowers)}}

\* C11: with preserveOriginal not set, the base text phrase stripping produces
\* holds no phrase that the resolution-spam, platform-tag, hyper-realism,
\* beauty-adjective or generic-lighting rule would flag.
StrippedTextHasNoFlaggedPhrase ==
    StrippedTransform => FlaggedFamilies(cleanPrompt(last.prompt.text)) = {}

\* the text holds 8k as a word of its own, in any letter case
HasStandalone8k(text) == TestPlain(Scan(text), <<"8k">>, NoFollowers)

\* every phrase transform can inject: the vocabulary as the source lists it
\* and the replacements of enhanceSubject and enhanceLocation
InjectedPhrases ==
    UNION {Range(xs) :
              xs \in {CAMERAS_film, CAMERAS_professional, CAMERAS_modern, LENSES,
                      LIGHTING_natural, LIGHTING_artificial, LIGHTING_moody,
                      IMPERFECTIONS_film, IMPERFECTIONS_focus, IMPERFECTIONS_physical,
                      IMPERFECTIONS_surface, HUMAN_DETAILS, COMPOSITION_natural,
                      COMPOSITION_angles, COMPOSITION_distance, ages, details, types}}
    \cup UNION {Range(locationEnhancements[k].specifics) :
                  k \in 1..Len(locationEnhancements)}
    \cup {"smartphone photo"}

NoInjectedPhraseHolds8k == \A phrase \in InjectedPhrases : ~HasStandalone8k(phrase)

\* C12: when the prompt holds 8k as a standalone word (any letter case) and
\* phrase stripping is enabled, the transformed text does not hold the
\* standalone token 8k, whatever the style, mood and imperfection level; no
\* phrase transform can inject holds it.
Standalone8kStripped ==
    /\ NoInjectedPhraseHolds8k
    /\ (StrippedTransform /\ HasStandalone8k(last.prompt.text))
           => ~HasStandalone8k(last.transform.transformed)

\* C12 happens: a prompt spelling the token in upper case was transformed and
\* the result is free of it
UpperCase8kStripped ==
    /\ StrippedTransform
    /\ HasStandalone8k(last.prompt.text)
    /\ last.prompt.text # ToLower(last.prompt.text)
    /\ last.transform.modifiersAdded # << >>
    /\ ~HasStandalone8k(last.transform.transformed)

\* the prompts of the documented transform examples
DocumentedPrompts == {"a woman in a coffee shop", ExamplePrompt}

\* "a woman" followed by an age descriptor and a distinguishing detail
QualifiedWoman ==
    {"a woman " \o ages[a] \o " " \o details[b] :
        a \in 1..Len(ages), b \in 1..Len(details)}

Contains(text, phrase) ==
    \E p \in 1..(Len(text) - Len(phrase) + 1) :
        SubSeq(text, p, p + Len(phrase) - 1) = phrase

\* C13: for the documented example prompts under the default configuration,
\* whatever the random choices, the transformed text has "a woman" replaced
\* by "a woman" with an age descriptor and a distinguishing detail.
DocumentedWomanQualified ==
    (/\ Returned("transform")
     /\ last.prompt.text \in DocumentedPrompts
     /\ Destructured(last.options) = Destructured(NoOptions))
        => \E q \in QualifiedWoman : Contains(last.transform.transformed, q)

CameraPhrases ==
    Range(CAMERAS_film) \cup Range(CAMERAS_professional) \cup Range(CAMERAS_modern)

LightingPhrases ==
    Range(LIGHTING_natural) \cup Range(LIGHTING_artificial) \cup Range(LIGHTING_moody)

ImperfectionPhrases ==
    Range(IMPERFECTIONS_film) \cup Range(IMPERFECTIONS_focus)
    \cup Range(IMPERFECTIONS_physical) \cup Range(IMPERFECTIONS_surface)

\* how many entries of xs are phrases of S
CountIn(xs, S) == Cardinality({k \in 1..Len(xs) : xs[k] \in S})

\* the lighting category the mood names
LightingFor(mood) ==
    IF mood = "moody" THEN LIGHTING_moody
    ELSE IF mood = "harsh" THEN LIGHTING_artificial ELSE LIGHTING_natural

\* C14: transform injects one phrase of CAMERAS.film for style film, one of
\* CAMERAS.modern for digital, the literal "smartphone photo" for phone;
\* exactly one LENSES phrase iff the style is not phone; and exactly one
\* lighting phrase, of LIGHTING.moody for mood moody, LIGHTING.artificial for
\* harsh, LIGHTING.natural otherwise.
TechnicalSelection ==
    Returned("transform") =>
        LET o == Destructured(last.options)
            m == last.transform.modifiersAdded
        IN /\ CountIn(m, CameraPhrases) = 1
           /\ o.style = "film" => m[1] \in Range(CAMERAS_film)
           /\ o.style = "digital" => m[1] \in Range(CAMERAS_modern)
           /\ o.style = "phone" => m[1] = "smartphone photo"
           /\ CountIn(m, Range(LENSES)) = (IF o.style # "phone" THEN 1 ELSE 0)
           /\ CountIn(m, LightingPhrases) = 1
           /\ CountIn(m, Range(LightingFor(o.mood))) = 1

\* C14 happens: after an earlier call, a transform with style phone and mood
\* harsh added the literal camera phrase, no lens and an artificial light
PhoneHarshSelected ==
    /\ Returned("transform")
    /\ calls >= 2
    /\ last.options.style = "phone"
    /\ last.options.mood = "harsh"
    /\ last.transform.modifiersAdded[1] = "smartphone photo"
    /\ last.transform.modifiersAdded[2] \in Range(LIGHTING_artificial)

IsImperfection(phrase) == phrase \in ImperfectionPhrases

\* C15: transform injects exactly 1 imperfection phrase for level low (film),
\* exactly 2 for medium (film, then focus) and exactly 3 for high (film,
\* focus, then surface), each from the named IMPERFECTIONS category.
ImperfectionSelection ==
    Returned("transform") =>
        LET level == Destructured(last.options).imperfectionLevel
            imp == SelectSeq(last.transform.modifiersAdded, IsImperfection)
        IN /\ level = "low" =>
                  Len(imp) = 1 /\ imp[1] \in Range(IMPERFECTIONS_film)
           /\ level = "medium" =>
                  /\ Len(imp) = 2
                  /\ imp[1] \in Range(IMPERFECTIONS_film)
                  /\ imp[2] \in Range(IMPERFECTIONS_focus)
           /\ level = "high" =>
                  /\ Len(imp) = 3
                  /\ imp[1] \in Range(IMPERFECTIONS_film)
                  /\ imp[2] \in Range(IMPERFECTIONS_focus)
                  /\ imp[3] \in Range(IMPERFECTIONS_surface)

\* C15 happens: a transform with level high added three imperfection phrases,
\* the last one of IMPERFECTIONS.surface
HighLevelAddsSurface ==
    /\ Returned("transform")
    /\ last.options.imperfectionLevel = "high"
    /\ CountIn(last.transform.modifiersAdded, ImperfectionPhrases) = 3
    /\ CountIn(last.transform.modifiersAdded, Range(IMPERFECTIONS_surface)) = 1

\* the human-subject nouns, as words of their own in any letter case
HasHumanNoun(text) ==
    TestPlain(Scan(text),
              <<"woman", "man", "person", "girl", "boy", "child", "people", "portrait",
                "face", "model", "figure">>, NoFollowers)

IsHumanDetail(phrase) == phrase \in Range(HUMAN_DETAILS)

\* C16: transform injects human-detail phrases iff the prompt as it was
\* passed in holds a human-subject noun, whatever stripping and subject
\* enhancement make of the working text: exactly two distinct phrases of
\* HUMAN_DETAILS when it does, none otherwise.
HumanDetailsFollowOriginal ==
    Returned("transform") =>
        LET h == SelectSeq(last.transform.modifiersAdded, IsHumanDetail)
        IN IF HasHumanNoun(last.prompt.text)
           THEN Len(h) = 2 /\ h[1] # h[2]
           ELSE h = << >>

\* C16 happens: the prompt named a person, the enhanced base text no longer
\* holds a human-subject noun, and two human details were added
HumanDetailsAfterSubjectRewritten ==
    /\ Returned("transform")
    /\ HasHumanNoun(last.prompt.text)
    /\ ~HasHumanNoun(TransformedText(last.prompt.text, last.options.preserveOriginal,
                                     last.rnd))
    /\ CountIn(last.transform.modifiersAdded, Range(HUMAN_DETAILS)) = 2

\* the section of modifiersAdded a phrase belongs to: 1 technical,
\* 2 imperfections, 3 composition, 4 human details, 0 none of them
SectionOf(phrase) ==
    IF phrase \in CameraPhrases \cup Range(LENSES) \cup LightingPhrases THEN 1
    ELSE IF phrase \in ImperfectionPhrases THEN 2
    ELSE IF phrase \in Range(COMPOSITION_natural) THEN 3
    ELSE IF phrase \in Range(HUMAN_DETAILS) THEN 4 ELSE 0

\* the category of every phrase for film, natural, medium and a human subject
EightPhraseShape ==
    <<CAMERAS_film, LENSES, LIGHTING_natural, IMPERFECTIONS_film, IMPERFECTIONS_focus,
      COMPOSITION_natural, HUMAN_DETAILS, HUMAN_DETAILS>>

\* C17: transformed is the enhanced base text followed by the phrases of
\* modifiersAdded, joined with ", "; modifiersAdded lists the technical
\* phrases, then the imperfection phrases, then exactly one
\* COMPOSITION.natural phrase, then the human-detail phrases; for style film,
\* mood natural, level medium and a human subject these are exactly 8
\* phrases: camera, lens, lighting, film imperfection, focus imperfection,
\* composition, two human details.
ModifiersOrderedAndJoined ==
    Returned("transform") =>
        LET o == Destructured(last.options)
            m == last.transform.modifiersAdded
        IN /\ last.transform.transformed =
                  Join(<<TransformedText(last.prompt.text, o.preserveOriginal, last.rnd)>>
                       \o m, ", ")
           /\ \A k \in 1..Len(m) : SectionOf(m[k]) # 0
           /\ \A j, k \in 1..Len(m) : j < k => SectionOf(m[j]) <= SectionOf(m[k])
           /\ CountIn(m, Range(COMPOSITION_natural)) = 1
           /\ (/\ o.style = "film" /\ o.mood = "natural"
               /\ o.imperfectionLevel = "medium" /\ HasHumanNoun(last.prompt.text))
                  => /\ Len(m) = Len(EightPhraseShape)
                     /\ \A k \in 1..Len(m) : m[k] \in Range(EightPhraseShape[k])

\* C17 happens: after an earlier call, a film, natural, medium transform of a
\* prompt with a human subject returned eight phrases after a base text
EightPhrasesJoined ==
    /\ Returned("transform")
    /\ calls >= 2
    /\ Destructured(last.options) = Destructured(NoOptions)
    /\ HasHumanNoun(last.prompt.text)
    /\ Len(last.transform.modifiersAdded) = 8
    /\ last.transform.transformed # Join(last.transform.modifiersAdded, ", ")

RuleNames == {AI_PRONE_PATTERNS[k].name : k \in RuleIndexes}

RuleOfName(name) == CHOOSE k \in RuleIndexes : AI_PRONE_PATTERNS[k].name = name

RuleOfId(id) == CHOOSE k \in RuleIndexes : AI_PRONE_PATTERNS[k].id = id

\* the result r of a transform of text whose analysis of the untouched
\* prompt was before
BooksAgree(r, text, before) ==
    /\ r.original = text
    /\ r.improvement = r.originalScore - r.newScore
    /\ r.originalScore = before.score
    /\ Len(r.issuesFixed) = Len(before.issues)
    /\ \A k \in 1..Len(r.issuesFixed) :
          /\ r.issuesFixed[k] \in RuleNames
          /\ RuleOfName(r.issuesFixed[k]) = RuleOfId(before.issues[k])
    /\ \A j, k \in 1..Len(r.issuesFixed) :
          j < k => RuleOfName(r.issuesFixed[j]) < RuleOfName(r.issuesFixed[k])

\* C18: in every transform result, original is the prompt passed in,
\* improvement is originalScore - newScore, originalScore is the score of the
\* analysis the call makes of the untouched prompt, and issuesFixed lists the
\* names of that analysis's issues, in rule-definition order.
ResultBookkeeping ==
    [][\A in \in TransformInputs :
          (last'.op = "transform" /\ last'.signal = "return" /\ last'.prompt = in[1])
              => BooksAgree(last'.transform, in[1].text,
                            analyzePrompt(in[1], lastIndex))]_vars

\* C18 happens: a transform returned with a negative improvement (the
\* transformed text scores higher than the prompt did)
NegativeImprovement ==
    /\ Returned("transform")
    /\ last.transform.original = last.prompt.text
    /\ last.transform.newScore > last.transform.originalScore
    /\ last.transform.improvement < 0

\* C19: with the random draws fixed, transform is a function of its
\* arguments: a call returns what the same call, with the same prompt,
\* configuration and draws, returns in a process where no call was made
\* before it (transformed text, scores and modifiersAdded alike).
TransformIgnoresEarlierCalls ==
    Returned("transform") =>
        last.transform =
            transformPrompt(last.prompt, last.options, last.rnd, InitialLastIndex,
                            InitialVocab).result

\* two phrases of the category, different from each other
TwoOf(xs, category) ==
    Len(xs) = 2 /\ xs[1] # xs[2] /\ Range(xs) \subseteq Range(category)

\* the suggestions g for a prompt whose analysis is a and which names a
\* human subject or not
SuggestionsAgree(g, a, human) ==
    /\ g.issues = a.issues
    /\ g.score = a.score
    /\ TwoOf(g.camera, CAMERAS_film)
    /\ TwoOf(g.lighting, LIGHTING_natural)
    /\ TwoOf(g.imperfections, IMPERFECTIONS_film)
    /\ TwoOf(g.composition, COMPOSITION_natural)
    /\ g.hasHumanDetails = human
    /\ Len(g.humanDetails) = (IF human THEN 3 ELSE 0)
    /\ Cardinality(Range(g.humanDetails)) = Len(g.humanDetails)
    /\ Range(g.humanDetails) \subseteq Range(HUMAN_DETAILS)

\* C20: suggest of a non-empty string never raises and leaves the prompt as
\* it is; it returns the issues and the score of one analysis of the prompt,
\* exactly 2 phrases for each of camera, lighting, imperfections and
\* composition, and exactly 3 human-detail phrases iff the prompt holds a
\* human-subject noun (no humanDetails entry otherwise).
SuggestShape ==
    [][\A prompt \in SuggestInputs :
          (/\ last'.op = "suggest" /\ last'.via = "api" /\ last'.prompt = prompt
           /\ prompt.kind = "string" /\ prompt.text # "")
              => /\ last'.signal = "return"
                 /\ SuggestionsAgree(last'.suggestions, analyzePrompt(prompt, lastIndex),
                                     HasHumanNoun(prompt.text))]_vars

\* C20 happens: after an earlier call, suggest returned for a prompt with a
\* human subject, with issues and three human-detail phrases
SuggestedForHumanSubject ==
    /\ Returned("suggest")
    /\ calls >= 2
    /\ last.suggestions.issues # << >>
    /\ Len(last.suggestions.camera) = 2
    /\ last.suggestions.hasHumanDetails
    /\ Len(last.suggestions.humanDetails) = 3

(***************************************************************************)
(* Properties of the issue list (under Spec).                              *)
(***************************************************************************)
\* how often the expression of rule k occurs in the text
Occurrences(k, text) ==
    Cardinality(MatchStarts(Scan(text), 1, AI_PRONE_PATTERNS[k].alts, NoFollowers))

\* C21: the issue list of analyze holds at most one issue per detection
\* rule, however often the rule's pattern occurs in the prompt, and the
\* issues stand in the order in which the rules are defined.
OneIssuePerRuleInRuleOrder ==
    Returned("analyze")
        => \A i, j \in 1..Len(last.analysis.issues) :
              i < j => RuleOfId(last.analysis.issues[i]) < RuleOfId(last.analysis.issues[j])

\* C21 happens: two rules whose patterns occur twice in the prompt each
\* gave one issue
RepeatedPatternReportedOnce ==
    /\ Returned("analyze")
    /\ last.prompt = JsStr(RepeatedPrompt)
    /\ Occurrences(RuleOfId("beautiful-modifier"), RepeatedPrompt) = 2
    /\ Occurrences(RuleOfId("portrait-generic"), RepeatedPrompt) = 2
    /\ Cardinality({i \in 1..Len(last.analysis.issues) :
                       last.analysis.issues[i] = "beautiful-modifier"}) = 1
    /\ Cardinality({i \in 1..Len(last.analysis.issues) :
                       last.analysis.issues[i] = "portrait-generic"}) = 1

(***************************************************************************)
(* Properties of the selection function (under ModifiersSpec).             *)
(***************************************************************************)
\* the phrases of a category: of an array, or of every array of an object
CategoryPhrases(category) ==
    IF category \in Categories THEN Range(InitialVocab[category])
    ELSE IF category = "CAMERAS"
    THEN Range(InitialVocab.CAMERAS_film) \cup Range(InitialVocab.CAMERAS_professional)
             \cup Range(InitialVocab.CAMERAS_modern)
    ELSE {}

\* C22: getRandomModifiers(category, n) selects without replacement: it
\* returns min(n, size of category) phrases, all members of the category
\* and pairwise distinct, so never more than the category contains.
SelectsWithoutReplacement ==
    (last.op = "getRandomModifiers" /\ last.category \in Categories \cup {"CAMERAS"})
        => /\ last.signal = "return"
           /\ Len(last.modifiers)
                  = Min2(last.count, Cardinality(CategoryPhrases(last.category)))
           /\ Range(last.modifiers) \subseteq CategoryPhrases(last.category)
           /\ Cardinality(Range(last.modifiers)) = Len(last.modifiers)

\* C22 happens: after an earlier call has shuffled the vocabulary, more
\* phrases were asked for than the category holds, and all of them came
SelectedWholeCategory ==
    /\ last.op = "getRandomModifiers"
    /\ calls >= 2
    /\ vocab # InitialVocab
    /\ last.category \in Categories
    /\ last.count > Cardinality(CategoryPhrases(last.category))
    /\ Range(last.modifiers) = CategoryPhrases(last.category)
    /\ Len(last.modifiers) = VocabLen

\* how often a phrase stands in an array
Times(xs, x) == Cardinality({k \in 1..Len(xs) : xs[k] = x})

\* C26: after any sequence of transform, suggest and getRandomModifiers
\* calls every vocabulary category holds exactly the multiset of phrases it
\* held at process start (no phrase lost, duplicated or added), and its size
\* never changes.
VocabularyKeepsItsPhrases ==
    \A c \in Categories :
        /\ Len(vocab[c]) = Len(InitialVocab[c])
        /\ \A x \in Range(vocab[c]) \cup Range(InitialVocab[c]) :
               Times(vocab[c], x) = Times(InitialVocab[c], x)

\* C26 happens: a transform or suggest and then a getRandomModifiers call
\* have both left arrays in another order than the one they started in
ArraysReorderedByTwoCalls ==
    /\ calls = 2
    /\ last.op = "getRandomModifiers"
    /\ last.category = "HUMAN_DETAILS"
    /\ vocab.HUMAN_DETAILS # InitialVocab.HUMAN_DETAILS
    /\ vocab.IMPERFECTIONS_film # InitialVocab.IMPERFECTIONS_film

(***************************************************************************)
(* Properties of the score after the transformation (under Spec).          *)
(***************************************************************************)
\* C23: in every transform result newScore is the score analyze gives
\* result.transformed from the matcher state of process start: the analysis
\* after the rewriting is not influenced by the analysis before it.
NewScoreIsFreshScore ==
    Returned("transform")
        => last.transform.newScore
               = analyzePrompt(JsStr(last.transform.transformed), InitialLastIndex).score

(***************************************************************************)
(* Properties of the rewriting steps (under EnhanceSpec).                  *)
(***************************************************************************)
StartsWith(s, prefix) == Len(s) >= Len(prefix) /\ SubSeq(s, 1, Len(prefix)) = prefix

\* the place in the fixed order of the family a phrase belongs to, 0 when
\* it is not one of 'in a', 'at a', 'at the' followed by a family's noun
LocationFamily(part) ==
    LET fs == {k \in 1..Len(locationEnhancements) :
                  ToLower(part) \in {pre \o " " \o locationEnhancements[k].generic :
                                        pre \in {"in a", "at a", "at the"}}}
    IN IF fs = {} THEN 0 ELSE Min(fs)

\* the first family, in the fixed order, that occurs among the phrases
FirstFamily(parts) ==
    LET fs == {LocationFamily(parts[k]) : k \in 1..Len(parts)} \ {0}
    IN IF fs = {} THEN 0 ELSE Min(fs)

\* the prompt with every phrase of the family replaced, the others kept
LocationsRewritten(parts, family, alternative) ==
    Join([k \in 1..Len(parts) |->
             IF LocationFamily(parts[k]) = family THEN "at " \o alternative
             ELSE parts[k]], ", ")

\* C24: location enhancement rewrites at most one location family: the
\* first, in the order coffee shop, office, street, park, that occurs after
\* 'in a', 'at a' or 'at the'; every such phrase of that family is replaced
\* by one alternative of the family's list (behind 'at'), and the phrases of
\* the other families are left as they are.
OneLocationFamilyRewritten ==
    last.op = "enhanceLocation"
        => LET family == FirstFamily(last.parts)
           IN IF family = 0 THEN last.text = last.prompt.text
              ELSE \E alternative \in Range(locationEnhancements[family].specifics) :
                      last.text = LocationsRewritten(last.parts, family, alternative)

\* C24 happens: the street phrase came twice, around a park phrase; both
\* street phrases were rewritten and the park phrase was kept
StreetRewrittenParkKept ==
    /\ last.op = "enhanceLocation"
    /\ last.parts = <<"at a street", "in a park", "At A Street">>
    /\ last.text = "at a sun-bleached sidewalk in midday heat, in a park, "
                       \o "at a sun-bleached sidewalk in midday heat"

\* the qualifiers the rule about subjects names
Qualifiers == {"with", "wearing", "holding", "in", "who", "aged", "around"}

\* the generic subject a phrase starts with, "none" when it starts with none
SubjectOf(part) ==
    LET ns == {n \in {"woman", "man", "person"} :
                  \/ ToLower(part) = "a " \o n
                  \/ StartsWith(ToLower(part), "a " \o n \o " ")}
    IN IF ns = {} THEN "none" ELSE CHOOSE n \in ns : TRUE

\* the subject is immediately followed by a qualifier
FollowedByQualifier(part, n) ==
    \E q \in Qualifiers : StartsWith(ToLower(part), "a " \o n \o " " \o q)

\* a phrase as the rule leaves it: an unqualified woman or man gets an age
\* and a detail, an unqualified person becomes an occupation
SubjectRewritten(part, age, detail, type) ==
    LET n == SubjectOf(part)
    IN IF n = "none" \/ FollowedByQualifier(part, n) THEN part
       ELSE IF n = "person" THEN type \o SubSeq(part, Len("a person") + 1, Len(part))
       ELSE "a " \o SubSeq(part, 3, 2 + Len(n)) \o " " \o age \o " " \o detail
                \o SubSeq(part, 3 + Len(n), Len(part))

\* C25: subject enhancement replaces every 'a woman' / 'a man' that is not
\* immediately followed by with, wearing, holding, in, who, aged or around
\* by 'a <subject> <age> <detail>' from the fixed lists, every 'a person'
\* not followed by a qualifier by one of the fixed occupations, and leaves
\* every occurrence that is followed by a qualifier as it is.
SubjectsRewrittenUnlessQualified ==
    last.op = "enhanceSubject"
        => \E age \in Range(ages), detail \in Range(details), type \in Range(types) :
              last.text = Join([k \in 1..Len(last.parts) |->
                                   SubjectRewritten(last.parts[k], age, detail, type)],
                               ", ")

(***************************************************************************)
(* Properties of the MCP server (under McpSpec).                           *)
(***************************************************************************)
\* C27: for every input line that parses as a JSON-RPC message with method
\* 'tools/call' the server writes exactly one response, which carries the
\* id of the request: a result when the tool returns, the error -32000 when
\* the tool throws (an unknown tool name included); 'notifications/initialized'
\* gets no response, and any other unknown method gets one error -32601.
OneResponsePerRequest ==
    (last.via = "mcp" /\ last.line.parses)
        => IF last.line.method = "tools/call"
           THEN /\ Len(last.written) = 1
                /\ last.written[1].id = last.line.id
                /\ \/ last.written[1].kind = "result"
                   \/ last.written[1].kind = "error" /\ last.written[1].code = -32000
                /\ last.line.name \notin {"transform", "analyze", "suggest", "modifiers"}
                       => last.written[1].kind = "error"
           ELSE IF last.line.method = "notifications/initialized"
           THEN last.written = << >>
           ELSE last.line.method \notin {"initialize", "tools/list"}
                    => /\ Len(last.written) = 1
                       /\ last.written[1].id = last.line.id
                       /\ last.written[1].kind = "error"
                       /\ last.written[1].code = -32601

====
